---- MODULE Spec2Model ----
(***************************************************************************)
(* The worker pool of src/main.rs: ThreadPool::new, ThreadPool::execute,   *)
(* Drop for ThreadPool and the thread loop started by Worker::new, over a  *)
(* std::sync::mpsc channel whose Receiver sits in an Arc<Mutex<..>>.       *)
(*                                                                         *)
(* One "main" thread owns the pool (new, execute, drop); workers 0..size-1 *)
(* are the spawned threads.  Jobs are numbered 1, 2, ... in the order of   *)
(* the execute calls; a job either finishes ("ok") or panics ("fail"), and *)
(* without fairness on its end it may also run forever.                    *)
(***************************************************************************)
EXTENDS Integers, Sequences, FiniteSets, TLC

MaxSize == 2    \* largest pool size tried (size ranges over 0..MaxSize)
MaxJobs == 3    \* number of execute calls tried

WorkerIds == 0 .. (MaxSize - 1)
JobIds == 1 .. MaxJobs
Kinds == {"ok", "fail"}

VARIABLES
    size,           \* argument of ThreadPool::new
    pcMain,         \* position of the thread that owns the pool
    id,             \* loop variable of `for id in 0..size` in new
    sender,         \* the channel's Sender (ThreadPool.sender): "Some" or "None"
    receiverRefs,   \* strong count of the Arc<Mutex<Receiver<Job>>>
    chanCreated,    \* mpsc::channel() has been called
    queue,          \* messages in the channel, oldest first
    lock,           \* holder of the Mutex guard, or -1
    poisoned,       \* Mutex poison flag
    pc,             \* position of each worker thread
    message,        \* local `message` of each worker thread
    thread,         \* Worker.thread of each worker: "None" or "Some"
    joinIdx,        \* index of the worker Drop is at
    joined,         \* workers whose join() returned Ok
    unwinding,      \* the owning thread is panicking
    nextJob,        \* number of the next job passed to execute
    kind,           \* what each submitted job does
    runs,           \* how many times each job was called
    done,           \* jobs that returned
    failed,         \* jobs that panicked
    discarded,      \* jobs dropped with the channel, never called
    rejected,       \* jobs whose send returned Err
    atClose         \* (history) where each job was when drop began

vars == << size, pcMain, id, sender, receiverRefs, chanCreated, queue, lock,
           poisoned, pc, message, thread, joinIdx, joined, unwinding, nextJob,
           kind, runs, done, failed, discarded, rejected, atClose >>

mainVars == << size, pcMain, id, sender, thread, joinIdx, joined, unwinding,
               nextJob, kind, rejected, atClose >>

NoMessage == [tag |-> "None", job |-> 0]
OkMessage(j) == [tag |-> "Ok", job |-> j]
ErrMessage == [tag |-> "Err", job |-> 0]

Range(s) == { s[i] : i \in 1 .. Len(s) }

Workers == { w \in WorkerIds : w < size }
Spawned == { w \in WorkerIds : pc[w] # "unspawned" }
Terminated(w) == pc[w] \in {"exited", "panicked"}
Running(w) == pc[w] \in {"lock", "recv", "drop_guard", "match", "job"}
Live == { w \in Workers : Running(w) }
Executing == { w \in Workers : pc[w] = "job" }
Holding(j) == { w \in Workers : message[w] = OkMessage(j) }
Accepted == (1 .. (nextJob - 1)) \ rejected
Ended == done \cup failed
ReceiverAlive == receiverRefs > 0
InQueue(j) == { i \in 1 .. Len(queue) : queue[i] = j }
JobPlace(j) ==
    IF InQueue(j) # {} THEN "queued"
    ELSE IF \E w \in Holding(j) : pc[w] = "job" THEN "executing"
    ELSE IF Holding(j) # {} THEN "dequeued"
    ELSE IF j \in Ended THEN "ended"
    ELSE IF j \in discarded THEN "discarded"
    ELSE "none"

Init ==
    /\ size \in 0 .. MaxSize
    /\ pcMain = "start"
    /\ id = 0
    /\ sender = "None"
    /\ receiverRefs = 0
    /\ chanCreated = FALSE
    /\ queue = << >>
    /\ lock = -1
    /\ poisoned = FALSE
    /\ pc = [w \in WorkerIds |-> "unspawned"]
    /\ message = [w \in WorkerIds |-> NoMessage]
    /\ thread = [w \in WorkerIds |-> "None"]
    /\ joinIdx = 0
    /\ joined = {}
    /\ unwinding = FALSE
    /\ nextJob = 1
    /\ kind = [j \in JobIds |-> "none"]
    /\ runs = [j \in JobIds |-> 0]
    /\ done = {}
    /\ failed = {}
    /\ discarded = {}
    /\ rejected = {}
    /\ atClose = [j \in JobIds |-> "none"]

(***************************************************************************)
(* ThreadPool::new                                                         *)
(***************************************************************************)

\* NewAssert without the assertion
NewAssert_NoCheck ==
    /\ pcMain = "start"
    /\ pcMain' = "new_channel"
    /\ UNCHANGED << size, id, sender, receiverRefs, chanCreated, queue, lock,
                    poisoned, pc, message, thread, joinIdx, joined, unwinding,
                    nextJob, kind, runs, done, failed, discarded, rejected,
                    atClose >>

\* assert!(size > 0)
NewAssert ==
    /\ pcMain = "start"
    /\ pcMain' = IF size > 0 THEN "new_channel" ELSE "new_panicked"
    /\ UNCHANGED << size, id, sender, receiverRefs, chanCreated, queue, lock,
                    poisoned, pc, message, thread, joinIdx, joined, unwinding,
                    nextJob, kind, runs, done, failed, discarded, rejected,
                    atClose >>

\* let (sender, receiver) = mpsc::channel(); Arc::new(Mutex::new(receiver))
NewChannel ==
    /\ pcMain = "new_channel"
    /\ chanCreated' = TRUE
    /\ sender' = "Some"
    /\ receiverRefs' = 1
    /\ id' = 0
    /\ pcMain' = "new_spawn"
    /\ UNCHANGED << size, queue, lock, poisoned, pc, message, thread,
                    joinIdx, joined, unwinding, nextJob, kind, runs, done,
                    failed, discarded, rejected, atClose >>

\* workers.push(Worker::new(id, Arc::clone(&receiver))) for id in 0..size
NewSpawn ==
    /\ pcMain = "new_spawn"
    /\ id < size
    /\ receiverRefs' = receiverRefs + 1
    /\ pc' = [pc EXCEPT ![id] = "lock"]
    /\ thread' = [thread EXCEPT ![id] = "Some"]
    /\ id' = id + 1
    /\ UNCHANGED << size, pcMain, sender, chanCreated, queue, lock, poisoned,
                    message, joinIdx, joined, unwinding, nextJob, kind, runs,
                    done, failed, discarded, rejected, atClose >>

\* NewReturn with the loop of new running over 0..size-1
NewReturn_Early ==
    /\ pcMain = "new_spawn"
    /\ id >= size - 1
    /\ receiverRefs' = receiverRefs - 1
    /\ pcMain' = "live"
    /\ UNCHANGED << size, id, sender, chanCreated, queue, lock, poisoned, pc,
                    message, thread, joinIdx, joined, unwinding, nextJob, kind,
                    runs, done, failed, discarded, rejected, atClose >>

\* NewReturn with the pool keeping an Arc of the receiver for itself
NewReturn_KeepReceiver ==
    /\ pcMain = "new_spawn"
    /\ id >= size
    /\ pcMain' = "live"
    /\ UNCHANGED << size, id, sender, receiverRefs, chanCreated, queue, lock,
                    poisoned, pc, message, thread, joinIdx, joined, unwinding,
                    nextJob, kind, runs, done, failed, discarded, rejected,
                    atClose >>

\* ThreadPool { workers, sender: Some(sender) }; the local `receiver` is dropped
NewReturn ==
    /\ pcMain = "new_spawn"
    /\ id >= size
    /\ receiverRefs' = receiverRefs - 1
    /\ pcMain' = "live"
    /\ UNCHANGED << size, id, sender, chanCreated, queue, lock, poisoned, pc, message,
                    thread, joinIdx, joined, unwinding, nextJob, kind, runs,
                    done, failed, discarded, rejected, atClose >>

(***************************************************************************)
(* ThreadPool::execute                                                     *)
(***************************************************************************)

\* Execute with self.sender.take() in place of self.sender.as_ref()
Execute_TakeSender(k) ==
    /\ pcMain = "live"
    /\ nextJob <= MaxJobs
    /\ kind' = [kind EXCEPT ![nextJob] = k]
    /\ nextJob' = nextJob + 1
    /\ sender' = "None"
    /\ IF sender = "Some" /\ ReceiverAlive
         THEN /\ queue' = Append(queue, nextJob)
              /\ UNCHANGED << pcMain, unwinding, rejected >>
         ELSE /\ pcMain' = "unwind"
              /\ unwinding' = TRUE
              /\ rejected' = rejected \cup {nextJob}
              /\ UNCHANGED queue
    /\ UNCHANGED << size, id, receiverRefs, chanCreated, lock, poisoned, pc,
                    message, thread, joinIdx, joined, runs, done, failed,
                    discarded, atClose >>

\* self.sender.as_ref().unwrap().send(job).unwrap()
Execute(k) ==
    /\ pcMain = "live"
    /\ nextJob <= MaxJobs
    /\ kind' = [kind EXCEPT ![nextJob] = k]
    /\ nextJob' = nextJob + 1
    /\ IF sender = "None"
         THEN \* unwrap on None
              /\ pcMain' = "unwind"
              /\ unwinding' = TRUE
              /\ rejected' = rejected \cup {nextJob}
              /\ UNCHANGED queue
         ELSE IF ReceiverAlive
                THEN /\ queue' = Append(queue, nextJob)
                     /\ UNCHANGED << pcMain, unwinding, rejected >>
                ELSE \* send returns Err(SendError(job)), unwrap panics
                     /\ pcMain' = "unwind"
                     /\ unwinding' = TRUE
                     /\ rejected' = rejected \cup {nextJob}
                     /\ UNCHANGED queue
    /\ UNCHANGED << size, id, sender, receiverRefs, chanCreated, lock,
                    poisoned, pc, message, thread, joinIdx, joined, runs, done,
                    failed, discarded, atClose >>

(***************************************************************************)
(* Drop for ThreadPool                                                     *)
(***************************************************************************)

\* DropSender with the sender left in place: drop goes straight to the joins
DropSender_KeepSender ==
    /\ pcMain \in {"live", "unwind"}
    /\ joinIdx' = 0
    /\ pcMain' = "join"
    /\ atClose' = [j \in JobIds |-> JobPlace(j)]
    /\ UNCHANGED << size, id, sender, receiverRefs, chanCreated, queue, lock,
                    poisoned, pc, message, thread, joined, unwinding, nextJob,
                    kind, runs, done, failed, discarded, rejected >>

\* drop(self.sender.take()); the pool goes out of scope, also while unwinding
DropSender ==
    /\ pcMain \in {"live", "unwind"}
    /\ sender' = "None"
    /\ joinIdx' = 0
    /\ pcMain' = "join"
    /\ atClose' = [j \in JobIds |-> JobPlace(j)]
    /\ UNCHANGED << size, id, receiverRefs, chanCreated, queue, lock, poisoned,
                    pc, message, thread, joined, unwinding, nextJob, kind,
                    runs, done, failed, discarded, rejected >>

\* Join dropping the JoinHandle (detaching the thread) instead of waiting
Join_NoWait ==
    /\ pcMain = "join"
    /\ joinIdx < size
    /\ thread' = [thread EXCEPT ![joinIdx] = "None"]
    /\ joined' = joined \cup {joinIdx}
    /\ joinIdx' = joinIdx + 1
    /\ UNCHANGED << size, pcMain, id, sender, receiverRefs, chanCreated, queue,
                    lock, poisoned, pc, message, unwinding, nextJob, kind,
                    runs, done, failed, discarded, rejected, atClose >>

\* if let Some(thread) = worker.thread.take() { thread.join().unwrap(); }
Join ==
    /\ pcMain = "join"
    /\ joinIdx < size
    /\ IF thread[joinIdx] = "Some"
         THEN /\ Terminated(joinIdx)
              /\ thread' = [thread EXCEPT ![joinIdx] = "None"]
              /\ IF pc[joinIdx] = "exited"
                   THEN /\ joined' = joined \cup {joinIdx}
                        /\ joinIdx' = joinIdx + 1
                        /\ UNCHANGED pcMain
                   ELSE \* join returns Err: unwrap panics, in a panic aborts
                        /\ pcMain' = IF unwinding THEN "aborted"
                                                  ELSE "drop_panicked"
                        /\ UNCHANGED << joined, joinIdx >>
         ELSE /\ joinIdx' = joinIdx + 1
              /\ UNCHANGED << thread, joined, pcMain >>
    /\ UNCHANGED << size, id, sender, receiverRefs, chanCreated, queue, lock,
                    poisoned, pc, message, unwinding, nextJob, kind, runs,
                    done, failed, discarded, rejected, atClose >>

\* DropReturn with the loop of drop leaving out the last worker
DropReturn_Early ==
    /\ pcMain = "join"
    /\ joinIdx >= size - 1
    /\ pcMain' = "returned"
    /\ UNCHANGED << size, id, sender, receiverRefs, chanCreated, queue, lock,
                    poisoned, pc, message, thread, joinIdx, joined, unwinding,
                    nextJob, kind, runs, done, failed, discarded, rejected,
                    atClose >>

\* the for loop of drop is over: drop returns
DropReturn ==
    /\ pcMain = "join"
    /\ joinIdx >= size
    /\ pcMain' = "returned"
    /\ UNCHANGED << size, id, sender, receiverRefs, chanCreated, queue, lock,
                    poisoned, pc, message, thread, joinIdx, joined, unwinding,
                    nextJob, kind, runs, done, failed, discarded, rejected,
                    atClose >>

(***************************************************************************)
(* The thread of Worker::new                                               *)
(***************************************************************************)

\* AcquireLock with the receiver shared without mutual exclusion
AcquireLock_NoExclusion(w) ==
    /\ w \in Workers
    /\ pc[w] = "lock"
    /\ lock' = w
    /\ pc' = [pc EXCEPT ![w] = "recv"]
    /\ UNCHANGED << receiverRefs, discarded, queue, poisoned, message, runs,
                    done, failed, chanCreated >>
    /\ UNCHANGED mainVars

\* receiver.lock().unwrap()
AcquireLock(w) ==
    /\ w \in Workers
    /\ pc[w] = "lock"
    /\ lock = -1
    /\ IF poisoned
         THEN /\ pc' = [pc EXCEPT ![w] = "panicked"]
              /\ receiverRefs' = receiverRefs - 1
              /\ discarded' = IF receiverRefs = 1
                                THEN discarded \cup Range(queue) ELSE discarded
              /\ queue' = IF receiverRefs = 1 THEN << >> ELSE queue
              /\ UNCHANGED lock
         ELSE /\ lock' = w
              /\ pc' = [pc EXCEPT ![w] = "recv"]
              /\ UNCHANGED << receiverRefs, discarded, queue >>
    /\ UNCHANGED << poisoned, message, runs, done, failed >>
    /\ UNCHANGED mainVars
    /\ UNCHANGED chanCreated

\* RecvOk over a channel that hands out the newest message first
RecvOk_Last(w) ==
    /\ w \in Workers
    /\ pc[w] = "recv"
    /\ queue # << >>
    /\ message' = [message EXCEPT ![w] = OkMessage(queue[Len(queue)])]
    /\ queue' = SubSeq(queue, 1, Len(queue) - 1)
    /\ pc' = [pc EXCEPT ![w] = "drop_guard"]
    /\ UNCHANGED << receiverRefs, chanCreated, lock, poisoned, runs, done,
                    failed, discarded >>
    /\ UNCHANGED mainVars

\* .recv() returns Ok(job): a message is in the channel
RecvOk(w) ==
    /\ w \in Workers
    /\ pc[w] = "recv"
    /\ queue # << >>
    /\ message' = [message EXCEPT ![w] = OkMessage(Head(queue))]
    /\ queue' = Tail(queue)
    /\ pc' = [pc EXCEPT ![w] = "drop_guard"]
    /\ UNCHANGED << receiverRefs, chanCreated, lock, poisoned, runs, done,
                    failed, discarded >>
    /\ UNCHANGED mainVars

\* RecvErr taking an empty channel for a closed one (try_recv in place of recv)
RecvErr_OnEmpty(w) ==
    /\ w \in Workers
    /\ pc[w] = "recv"
    /\ queue = << >>
    /\ message' = [message EXCEPT ![w] = ErrMessage]
    /\ pc' = [pc EXCEPT ![w] = "drop_guard"]
    /\ UNCHANGED << receiverRefs, chanCreated, queue, lock, poisoned, runs,
                    done, failed, discarded >>
    /\ UNCHANGED mainVars

\* RecvErr reporting the closed channel without looking at the messages left
RecvErr_NoDrain(w) ==
    /\ w \in Workers
    /\ pc[w] = "recv"
    /\ sender = "None"
    /\ message' = [message EXCEPT ![w] = ErrMessage]
    /\ pc' = [pc EXCEPT ![w] = "drop_guard"]
    /\ UNCHANGED << receiverRefs, chanCreated, queue, lock, poisoned, runs,
                    done, failed, discarded >>
    /\ UNCHANGED mainVars

\* .recv() returns Err(RecvError): the channel is empty and every Sender gone
RecvErr(w) ==
    /\ w \in Workers
    /\ pc[w] = "recv"
    /\ queue = << >>
    /\ sender = "None"
    /\ message' = [message EXCEPT ![w] = ErrMessage]
    /\ pc' = [pc EXCEPT ![w] = "drop_guard"]
    /\ UNCHANGED << receiverRefs, chanCreated, queue, lock, poisoned, runs,
                    done, failed, discarded >>
    /\ UNCHANGED mainVars

\* DropGuard with the guard kept alive over the match (`while let` form)
DropGuard_KeepGuard(w) ==
    /\ w \in Workers
    /\ pc[w] = "drop_guard"
    /\ pc' = [pc EXCEPT ![w] = "match"]
    /\ UNCHANGED << receiverRefs, chanCreated, queue, lock, poisoned, message,
                    runs, done, failed, discarded >>
    /\ UNCHANGED mainVars

\* end of `let message = ...;`: the temporary MutexGuard is dropped
DropGuard(w) ==
    /\ w \in Workers
    /\ pc[w] = "drop_guard"
    /\ lock' = IF lock = w THEN -1 ELSE lock
    /\ pc' = [pc EXCEPT ![w] = "match"]
    /\ UNCHANGED << receiverRefs, chanCreated, queue, poisoned, message, runs,
                    done, failed, discarded >>
    /\ UNCHANGED mainVars

\* Match with an Err arm that goes round the loop instead of breaking
Match_NoBreak(w) ==
    /\ w \in Workers
    /\ pc[w] = "match"
    /\ IF message[w].tag = "Ok"
         THEN /\ runs' = [runs EXCEPT ![message[w].job] = @ + 1]
              /\ pc' = [pc EXCEPT ![w] = "job"]
              /\ UNCHANGED message
         ELSE /\ pc' = [pc EXCEPT ![w] = "lock"]
              /\ message' = [message EXCEPT ![w] = NoMessage]
              /\ UNCHANGED runs
    /\ UNCHANGED << receiverRefs, queue, discarded, chanCreated, lock,
                    poisoned, done, failed >>
    /\ UNCHANGED mainVars

\* match message { Ok(job) => job() is called, Err(_) => break }
Match(w) ==
    /\ w \in Workers
    /\ pc[w] = "match"
    /\ IF message[w].tag = "Ok"
         THEN /\ runs' = [runs EXCEPT ![message[w].job] = @ + 1]
              /\ pc' = [pc EXCEPT ![w] = "job"]
              /\ UNCHANGED << receiverRefs, queue, discarded, message >>
         ELSE \* the thread ends and drops its Arc; the last one drops the
              \* Receiver together with the messages still in the channel
              /\ pc' = [pc EXCEPT ![w] = "exited"]
              /\ message' = [message EXCEPT ![w] = NoMessage]
              /\ receiverRefs' = receiverRefs - 1
              /\ discarded' = IF receiverRefs = 1
                                THEN discarded \cup Range(queue) ELSE discarded
              /\ queue' = IF receiverRefs = 1 THEN << >> ELSE queue
              /\ UNCHANGED runs
    /\ UNCHANGED << chanCreated, lock, poisoned, done, failed >>
    /\ UNCHANGED mainVars

\* JobFinish in a thread body without the loop: the thread ends after a job
JobFinish_Exit(w) ==
    /\ w \in Workers
    /\ pc[w] = "job"
    /\ kind[message[w].job] = "ok"
    /\ done' = done \cup {message[w].job}
    /\ message' = [message EXCEPT ![w] = NoMessage]
    /\ pc' = [pc EXCEPT ![w] = "exited"]
    /\ receiverRefs' = receiverRefs - 1
    /\ discarded' = IF receiverRefs = 1
                      THEN discarded \cup Range(queue) ELSE discarded
    /\ queue' = IF receiverRefs = 1 THEN << >> ELSE queue
    /\ UNCHANGED << chanCreated, lock, poisoned, runs, failed >>
    /\ UNCHANGED mainVars

\* job() returns; the loop goes round
JobFinish(w) ==
    /\ w \in Workers
    /\ pc[w] = "job"
    /\ kind[message[w].job] = "ok"
    /\ done' = done \cup {message[w].job}
    /\ message' = [message EXCEPT ![w] = NoMessage]
    /\ pc' = [pc EXCEPT ![w] = "lock"]
    /\ UNCHANGED << receiverRefs, chanCreated, queue, lock, poisoned, runs,
                    failed, discarded >>
    /\ UNCHANGED mainVars

\* job() panics: the thread unwinds, poisoning a guard it holds and dropping
\* its Arc; the last Arc drops the Receiver and the messages in the channel
JobPanic(w) ==
    /\ w \in Workers
    /\ pc[w] = "job"
    /\ kind[message[w].job] = "fail"
    /\ failed' = failed \cup {message[w].job}
    /\ message' = [message EXCEPT ![w] = NoMessage]
    /\ pc' = [pc EXCEPT ![w] = "panicked"]
    /\ poisoned' = (poisoned \/ lock = w)
    /\ lock' = IF lock = w THEN -1 ELSE lock
    /\ receiverRefs' = receiverRefs - 1
    /\ discarded' = IF receiverRefs = 1
                      THEN discarded \cup Range(queue) ELSE discarded
    /\ queue' = IF receiverRefs = 1 THEN << >> ELSE queue
    /\ UNCHANGED << chanCreated, runs, done >>
    /\ UNCHANGED mainVars

Next ==
    \/ NewAssert
    \/ NewChannel
    \/ NewSpawn
    \/ NewReturn
    \/ \E k \in Kinds : Execute(k)
    \/ DropSender
    \/ Join
    \/ DropReturn
    \/ \E w \in WorkerIds : AcquireLock(w)
    \/ \E w \in WorkerIds : RecvOk(w)
    \/ \E w \in WorkerIds : RecvErr(w)
    \/ \E w \in WorkerIds : DropGuard(w)
    \/ \E w \in WorkerIds : Match(w)
    \/ \E w \in WorkerIds : JobFinish(w)
    \/ \E w \in WorkerIds : JobPanic(w)

Spec == Init /\ [][Next]_vars

\* The worker threads are scheduled: a worker that can take its next step in
\* the loop takes it.  Nothing is assumed about when a job ends.
WorkerFairness ==
    \A w \in WorkerIds :
        /\ WF_vars(AcquireLock(w))
        /\ WF_vars(RecvOk(w))
        /\ WF_vars(RecvErr(w))
        /\ WF_vars(DropGuard(w))
        /\ WF_vars(Match(w))

\* Every job that is called ends, by returning or by panicking.
JobFairness ==
    \A w \in WorkerIds : WF_vars(JobFinish(w)) /\ WF_vars(JobPanic(w))

\* The thread in drop is scheduled.
DropFairness == WF_vars(Join) /\ WF_vars(DropReturn)

LiveSpec == Spec /\ WorkerFairness
FairSpec == Spec /\ WorkerFairness /\ JobFairness /\ DropFairness

TypeOK ==
    /\ size \in 0 .. MaxSize
    /\ lock \in WorkerIds \cup {-1}
    /\ receiverRefs \in 0 .. (MaxSize + 1)
    /\ nextJob \in 1 .. (MaxJobs + 1)
    /\ Range(queue) \subseteq JobIds

(***************************************************************************)
(* Properties                                                              *)
(***************************************************************************)

Submitted == 1 .. (nextJob - 1)
PendingAtClose == { j \in JobIds : atClose[j] = "queued" }
InflightAtClose == { j \in JobIds : atClose[j] = "executing" }
Places(j) == Cardinality(InQueue(j)) + Cardinality(Holding(j))
             + (IF j \in Ended THEN 1 ELSE 0)

\* C1: every job accepted by execute is in exactly one place: in the queue
\* (once), held by exactly one worker, or ended; no job is dequeued by two
\* workers and no job is called more than once.
C1_ExactlyOnce ==
    \A j \in Accepted :
        /\ Places(j) = 1
        /\ Cardinality(Holding(j)) <= 1
        /\ runs[j] <= 1

\* C2: when drop returns and every submitted job is one that finishes, every
\* submitted job has been called exactly once and has returned, the jobs that
\* were in the queue when the sender was dropped included.
C2_CompleteDrain ==
    (pcMain = "returned" /\ \A j \in Submitted : kind[j] = "ok")
        => /\ \A j \in Submitted : runs[j] = 1 /\ j \in done
           /\ Cardinality(done) = nextJob - 1
           /\ queue = << >>

C2_Witness ==
    /\ pcMain = "returned"
    /\ Cardinality(done) >= 2
    /\ PendingAtClose # {}
    /\ \A j \in Submitted : kind[j] = "ok"

\* C3: when drop has returned no worker is executing or holding a job, and
\* every job that was being executed when drop began has returned.
C3_TeardownWaits ==
    pcMain = "returned"
        => /\ Executing = {}
           /\ \A j \in JobIds : Holding(j) = {}
           /\ InflightAtClose \subseteq done

C3_Witness ==
    /\ pcMain = "returned"
    /\ InflightAtClose # {}
    /\ InflightAtClose \subseteq done

\* C4: when drop has returned each of the `size` workers is terminated and
\* joined, and from then on no job is called.
C4_NoWorkerAlive ==
    /\ [](pcMain = "returned"
            => /\ \A w \in Workers : Terminated(w) /\ w \in joined
                                     /\ thread[w] = "None"
               /\ Cardinality(joined) = size)
    /\ [][pcMain = "returned" => runs' = runs]_vars

C4_Witness ==
    /\ pcMain = "returned"
    /\ size >= 2
    /\ Cardinality(joined) = size
    /\ done # {}

\* C5: once drop has begun, if every job that was queued, dequeued or being
\* executed when it began is one that finishes, drop eventually returns with
\* each of the `size` workers joined.
C5_TeardownTerminates ==
    (pcMain = "join"
      /\ \A j \in JobIds : atClose[j] \in {"queued", "dequeued", "executing"}
                                => kind[j] = "ok")
        ~> (pcMain = "returned" /\ joined = Workers)

\* C6: with size = 0, new stops at the assertion: no channel, no sender, no
\* worker thread and no pool.
C6_NewZeroFails ==
    size = 0
        => /\ pcMain \in {"start", "new_panicked"}
           /\ ~chanCreated
           /\ sender = "None"
           /\ receiverRefs = 0
           /\ Spawned = {}
           /\ \A w \in WorkerIds : thread[w] = "None"

C6_Witness ==
    size = 0 /\ pcMain = "new_panicked"

InNew == pcMain \in {"start", "new_channel", "new_spawn", "new_panicked"}

\* C7: once new has returned exactly workers 0..size-1 have been spawned; they
\* are all running and share the receiver when new returns; the number of jobs
\* being executed is at most the number of live workers, which is at most
\* size, and the set of live workers never grows.
C7_FixedSize ==
    /\ [](~InNew
            => /\ Spawned = Workers
               /\ Cardinality(Spawned) = size
               /\ Cardinality(Executing) <= Cardinality(Live)
               /\ Cardinality(Live) <= size
               /\ (pcMain = "live" /\ nextJob = 1
                     => Live = Workers /\ receiverRefs = size))
    /\ [][~InNew => Live' \subseteq Live]_vars

C7_Witness ==
    /\ ~InNew
    /\ size >= 2
    /\ Cardinality(Executing) = size

StartedJobs == { j \in JobIds : runs[j] > 0 }
IdleLive == { w \in Workers : pc[w] \in {"lock", "recv", "drop_guard", "match"} }

\* C8: whenever the queue is non-empty and some live worker is not executing
\* a job, one more job is eventually called, whether or not the jobs being
\* executed ever end; and while all `size` workers go on executing, the job
\* at the head of the queue stays there.
C8_Parallel ==
    /\ \A n \in 0 .. MaxJobs :
          (queue # << >> /\ IdleLive # {} /\ Cardinality(StartedJobs) = n)
              ~> (Cardinality(StartedJobs) > n)
    /\ [][(size > 0 /\ Executing = Workers /\ Executing' = Workers
            /\ message' = message /\ queue # << >>)
            => (queue' # << >> /\ Head(queue') = Head(queue)
                /\ runs' = runs)]_vars

C8_Witness ==
    /\ size >= 2
    /\ Executing = Workers
    /\ queue # << >>
    /\ done = {} /\ failed = {}

\* C9: while the sender is held, execute appends the job to the queue and
\* returns, whatever the queue and the workers are.
C9_SubmitNeverRejects ==
    [][(pcMain = "live" /\ sender = "Some" /\ nextJob' = nextJob + 1)
        => (queue' = Append(queue, nextJob) /\ pcMain' = "live"
            /\ rejected' = rejected)]_vars

\* C10: every job that execute has put in the queue is eventually called.
C10_EveryJobRuns ==
    \A j \in JobIds : (InQueue(j) # {}) ~> (runs[j] = 1)

Panics(w) == pc[w] = "job" /\ pc'[w] = "panicked"

\* C11: the step in which a job panics changes nothing but its worker, which
\* becomes terminated: the queue, the other workers, the lock and the call
\* counts stay as they are and the live workers are the former ones less this
\* one; afterwards the failed job is never called again and the set of live
\* workers never grows.
C11_FailureIsolation ==
    /\ [][\A w \in Workers :
            Panics(w)
                => /\ queue' = queue
                   /\ discarded' = discarded
                   /\ \A v \in Workers \ {w} :
                          pc'[v] = pc[v] /\ message'[v] = message[v]
                   /\ lock' = lock /\ poisoned' = poisoned
                   /\ runs' = runs
                   /\ Live' = Live \ {w}]_vars
    /\ [][~InNew => /\ \A j \in failed : runs'[j] = runs[j]
                     /\ Live' \subseteq Live]_vars

Joining == pcMain \in {"join", "returned", "drop_panicked", "aborted"}

\* C12: whenever drop is at or past its joins the sender has been dropped;
\* no worker's thread handle is taken while the sender is still there.
C12_CloseBeforeJoin ==
    /\ Joining => sender = "None"
    /\ (~InNew /\ \E w \in Workers : thread[w] = "None") => sender = "None"

C12_Witness ==
    /\ pcMain = "join"
    /\ sender = "None"
    /\ thread[joinIdx] = "Some"
    /\ Running(joinIdx)

LeavesRecv(w) == pc[w] = "recv" /\ pc'[w] # "recv"

\* C13: a recv that returns while the queue holds a job returns the job at
\* its head, whether or not the sender is gone; a recv that returns on an
\* empty queue returns the closed signal and the sender is gone; so while the
\* sender is there and the queue is empty the worker stays in recv.  A worker
\* that has the closed signal sees an empty queue and no sender.
C13_ClosedSignal ==
    /\ [][\A w \in Workers :
            LeavesRecv(w)
                => IF queue # << >>
                     THEN message'[w] = OkMessage(Head(queue))
                     ELSE sender = "None" /\ message'[w] = ErrMessage]_vars
    /\ [](\A w \in Workers :
            message[w] = ErrMessage => sender = "None" /\ queue = << >>)

C13_Witness ==
    /\ \E w \in Workers : message[w] = ErrMessage
    /\ PendingAtClose # {}
    /\ PendingAtClose \subseteq done

\* C14: once the sender has been dropped, every running worker eventually
\* terminates, wherever in its loop it is.
C14_NoWorkerBlocksForever ==
    \A w \in WorkerIds :
        (sender = "None" /\ w \in Workers /\ Running(w)) ~> Terminated(w)

C14_Witness ==
    /\ pcMain = "join"
    /\ size >= 2
    /\ \A w \in Workers : pc[w] = "exited"
    /\ \E j \in JobIds : atClose[j] = "executing"

InRecv == { w \in Workers : pc[w] \in {"recv", "drop_guard"} }

\* C15: at most one worker is inside recv, and it is the holder of the lock;
\* the lock is held by no worker that is matching, executing a job, waiting
\* for the lock or terminated; the lock is never poisoned.
C15_MutualExclusion ==
    /\ Cardinality(InRecv) <= 1
    /\ \A w \in InRecv : lock = w
    /\ lock # -1 => lock \in InRecv
    /\ \A w \in Workers : pc[w] \in {"match", "job"} \/ Terminated(w)
                               => lock # w
    /\ ~poisoned

C15_Witness ==
    /\ \E w \in Workers : pc[w] = "recv" /\ lock = w
    /\ \E v \in Workers : pc[v] = "panicked"
    /\ ~poisoned

\* C16: a spawned worker is running or terminated; it goes from running to
\* terminated only by matching the closed signal or by the panic of the job
\* it executes; a terminated worker stays as it is, holds no job and no lock.
C16_WorkerLifecycle ==
    /\ [](\A w \in Spawned : Running(w) \/ Terminated(w))
    /\ [][\A w \in Workers :
            /\ (Running(w) /\ Terminated(w)')
                  => \/ pc[w] = "match" /\ message[w] = ErrMessage
                        /\ pc'[w] = "exited"
                     \/ pc[w] = "job" /\ kind[message[w].job] = "fail"
                        /\ pc'[w] = "panicked"
            /\ Terminated(w)
                  => /\ pc'[w] = pc[w]
                     /\ message'[w] = NoMessage
                     /\ lock' # w]_vars

C16_Witness ==
    /\ \E w \in Workers : pc[w] = "exited"
    /\ \E v \in Workers : pc[v] = "panicked"
    /\ done # {}

Executes == nextJob' = nextJob + 1

\* C17: a call of execute with the sender held fails exactly when every one
\* of the `size` workers has terminated, that is when no Arc of the receiver
\* is left; the job of a failed call is not put in the queue, and it is never
\* held or called by a worker.
C17_SendFails ==
    /\ [][(Executes /\ sender = "Some")
            => /\ (pcMain' = "unwind") <=> (\A w \in Workers : Terminated(w))
               /\ (pcMain' = "unwind") <=> (receiverRefs = 0)
               /\ IF pcMain' = "unwind"
                    THEN queue' = queue /\ nextJob \in rejected'
                    ELSE queue' = Append(queue, nextJob)
                         /\ rejected' = rejected]_vars
    /\ [](\A j \in rejected :
            runs[j] = 0 /\ InQueue(j) = {} /\ Holding(j) = {}
            /\ j \notin Ended)

C17_Witness ==
    /\ pcMain = "unwind"
    /\ rejected # {}
    /\ sender = "Some"
    /\ \A w \in Workers : pc[w] = "panicked"

\* C18: from the return of new until drop begins the sender is there; it is
\* released only by the first step of drop, once, and stays released; execute
\* is called only while it is there, so it never finds it absent.
C18_SendAfterCloseUnreachable ==
    /\ [](pcMain \in {"live", "unwind"} => sender = "Some")
    /\ [][(sender = "Some" /\ sender' = "None")
            => pcMain \in {"live", "unwind"} /\ pcMain' = "join"]_vars
    /\ [][(chanCreated /\ sender = "None")
            => sender' = "None" /\ nextJob' = nextJob]_vars
    /\ [][Executes => sender = "Some"]_vars

C18_Witness ==
    /\ pcMain = "returned"
    /\ sender = "None"
    /\ rejected = {}
    /\ nextJob > 2

Dequeued(j) == Holding(j) # {} \/ j \in Ended

\* C19: jobs leave the queue in the order of the execute calls: the queue
\* holds the jobs in ascending order and a job that has been dequeued has
\* every accepted job submitted before it dequeued as well.
C19_DequeueOrder ==
    /\ \A a, b \in 1 .. Len(queue) : a < b => queue[a] < queue[b]
    /\ \A i, j \in Accepted : (i < j /\ Dequeued(j)) => Dequeued(i)

C19_Witness ==
    \E w, v \in Workers :
        /\ message[w] = OkMessage(1) /\ pc[w] = "match"
        /\ message[v] = OkMessage(2) /\ pc[v] = "job"
====
